---- MODULE Spec2Model ----
(***************************************************************************)
(* Model of mollie/chargebacks.go: the ChargebacksService accessor with    *)
(* its three read operations Get, List and ListForPayment and the private  *)
(* helper list.                                                            *)
(*                                                                         *)
(* Strings are sequences of one-character strings, so that fmt.Sprintf is  *)
(* concatenation and url.Values.Encode is a real character-level encoding. *)
(* A Go pointer is a sequence of length 0 (nil) or 1 (pointing at its      *)
(* element).                                                               *)
(***************************************************************************)
EXTENDS Integers, Sequences, FiniteSets, TLC

\* Number of calls that may be in flight on the same accessor.
NCalls == 2
\* Longest value of one options field.
MaxLen == 1

Calls == 1..NCalls

VARIABLES pc, op, paymentID, chargebackID, options, u, req, res, ret, err, trace, cs

vars == <<pc, op, paymentID, chargebackID, options, u, req, res, ret, err, trace, cs>>

(***************************************************************************)
(* Strings                                                                 *)
(***************************************************************************)
\* Characters an options field is drawn from: one unreserved character,
\* two that url.QueryEscape rewrites, and the space it turns into "+".
OptChars == {"a", "&", "=", " "}

RECURSIVE StringsUpTo(_, _)
StringsUpTo(chars, n) ==
    IF n = 0 THEN {<<>>}
    ELSE LET shorter == StringsUpTo(chars, n - 1)
         IN  shorter \cup {Append(s, c) : s \in shorter, c \in chars}

OptStrings == StringsUpTo(OptChars, MaxLen)

\* Payment and chargeback identifiers handed in by the callers.
IDs == { <<"t", "r", "_", "7">>, <<"c", "h", "b", "_", "n">> }

(***************************************************************************)
(* Options structs (lines 34-45) and github.com/google/go-querystring      *)
(***************************************************************************)
UrlTag_profileID ==
    [ Include   |-> <<"i", "n", "c", "l", "u", "d", "e">>,
      Embed     |-> <<"e", "m", "b", "e", "d">>,
      ProfileID |-> <<"p", "r", "o", "f", "i", "l", "e", "I", "D">> ]

\* The url struct tags: field name -> parameter name.
UrlTag ==
    [ Include   |-> <<"i", "n", "c", "l", "u", "d", "e">>,
      Embed     |-> <<"e", "m", "b", "e", "d">>,
      ProfileID |-> <<"p", "r", "o", "f", "i", "l", "e", "I", "d">> ]

\* The fields of each options type, in declaration order.
OptionFields ==
    [ ChargebackOptions     |-> <<"Include", "Embed">>,
      ListChargebackOptions |-> <<"Include", "Embed", "ProfileID">> ]

\* A nil *ChargebackOptions / *ListChargebackOptions.
NilOptions(type) == [type |-> type, ptr |-> <<>>]

\* Every value of the pointer type: nil, or a struct whose fields are strings.
OptionsOf(type, strings) ==
    {NilOptions(type)} \cup
    { [type |-> type, ptr |-> << f >>] :
        f \in [ {OptionFields[type][i] : i \in 1..Len(OptionFields[type])} -> strings ] }

ChargebackOptions == OptionsOf("ChargebackOptions", OptStrings)
ListChargebackOptions == OptionsOf("ListChargebackOptions", OptStrings)

OmitEmpty_never(value) == FALSE

\* `omitempty`: a field with the empty value is left out.
OmitEmpty(value) == value = <<>>

\* query.Values(options): one entry per field that is not omitted, keyed by
\* the field's url tag.  A url.Values is a set of [key, value] entries here
\* (every key carries one value).
Values(o) ==
    LET s == o.ptr[1]
    IN  { [key |-> UrlTag[f], value |-> s[f]] : f \in {g \in DOMAIN s : ~OmitEmpty(s[g])} }

\* net/url shouldEscape in query-component mode: what is not unreserved is
\* percent-encoded with its upper-case hexadecimal code.
PercentCode ==
    ("&" :> <<"%", "2", "6">>) @@ ("=" :> <<"%", "3", "D">>) @@
    ("+" :> <<"%", "2", "B">>) @@ ("%" :> <<"%", "2", "5">>) @@
    ("?" :> <<"%", "3", "F">>) @@ ("/" :> <<"%", "2", "F">>)

EscapeChar(c) ==
    IF c = " " THEN <<"+">>
    ELSE IF c \in DOMAIN PercentCode THEN PercentCode[c]
    ELSE <<c>>

QueryEscape_raw(s) == s

RECURSIVE QueryEscape(_)
QueryEscape(s) == IF s = <<>> THEN <<>> ELSE EscapeChar(Head(s)) \o QueryEscape(Tail(s))

\* url.Values.Encode sorts the keys; of the three tags the order is this.
SortedKeys == << UrlTag.Embed, UrlTag.Include, UrlTag.ProfileID >>

RECURSIVE EncodeFrom(_, _, _)
EncodeFrom(v, i, buf) ==
    IF i > Len(SortedKeys) THEN buf
    ELSE LET k == SortedKeys[i]
             es == {e \in v : e.key = k}
         IN  IF es = {} THEN EncodeFrom(v, i + 1, buf)
             ELSE LET e == CHOOSE x \in es : TRUE
                      sep == IF Len(buf) > 0 THEN <<"&">> ELSE <<>>
                  IN  EncodeFrom(v, i + 1,
                        buf \o sep \o QueryEscape(k) \o <<"=">> \o QueryEscape(e.value))

\* url.Values.Encode: "k1=v1&k2=v2", keys sorted, keys and values escaped.
Encode(v) == EncodeFrom(v, 1, <<>>)

WithQuery_always(path, o) ==
    path \o <<"?">> \o (IF o.ptr # <<>> THEN Encode(Values(o)) ELSE <<>>)

\* `if options != nil { v, _ := query.Values(options); u = u + "?" + v.Encode() }`
WithQuery(path, o) ==
    IF o.ptr # <<>> THEN path \o <<"?">> \o Encode(Values(o)) ELSE path

(***************************************************************************)
(* URL construction of the three operations                                *)
(***************************************************************************)
V2Payments == <<"v", "2", "/", "p", "a", "y", "m", "e", "n", "t", "s", "/">>
SlashChargebacks == <<"/", "c", "h", "a", "r", "g", "e", "b", "a", "c", "k", "s">>
V2Chargebacks == <<"v", "2">> \o SlashChargebacks

\* Get, lines 64-68.
GetURL(pid, cid, o) ==
    WithQuery(V2Payments \o pid \o SlashChargebacks \o <<"/">> \o cid, o)

\* List, lines 87-91.
ListURL(o) == WithQuery(V2Chargebacks, o)

\* ListForPayment, lines 99-103.
ListForPaymentURL(pid, o) == WithQuery(V2Payments \o pid \o SlashChargebacks, o)

(***************************************************************************)
(* JSON documents and encoding/json.Unmarshal                              *)
(* A response body is either text that is not JSON (Invalid) or a JSON     *)
(* value [t |-> its kind, v |-> its content].                              *)
(***************************************************************************)
Invalid == [t |-> "invalid", v |-> <<>>]
JNull == [t |-> "null", v |-> <<>>]
JStr(s) == [t |-> "string", v |-> <<s>>]
JNum(n) == [t |-> "number", v |-> <<n>>]
JArr(xs) == [t |-> "array", v |-> xs]
JObj(ms) == [t |-> "object", v |-> ms]
M(k, j) == [k |-> k, val |-> j]

\* Go types of the decode targets.
TString == [kind |-> "string"]
TInt == [kind |-> "int"]
TStruct(name) == [kind |-> "struct", name |-> name]
TPtr(elem) == [kind |-> "ptr", elem |-> elem]
TSlice(elem) == [kind |-> "slice", elem |-> elem]
\* A type declared elsewhere in the package (Amount, URL, PaginationLinks) or
\* in the standard library (time.Time): it takes a JSON value of kind `json`
\* and is kept as decoded from it.
TExt(json) == [kind |-> "ext", json |-> json]

F(keys, field, ty) == [keys |-> keys, field |-> field, ty |-> ty]

\* The struct types of lines 13-54 with their json tags.  A key matches a
\* field when it equals the tag or differs from it in case only; `keys`
\* lists the spellings the bodies use.
StructFields(name) ==
    CASE name = "Chargeback" ->
           << F({"resource"}, "Resource", TString),
              F({"id"}, "ID", TString),
              F({"amount"}, "Amount", TPtr(TExt("object"))),
              F({"settlementAmount"}, "SettlementAmount", TPtr(TExt("object"))),
              F({"createdAt"}, "CreatedAt", TPtr(TExt("string"))),
              F({"reversedAt"}, "ReversedAt", TPtr(TExt("string"))),
              F({"paymentId"}, "PaymentID", TString),
              F({"_links"}, "Links", TStruct("ChargebackLinks")) >>
      [] name = "ChargebackLinks" ->
           << F({"self"}, "Self", TPtr(TExt("object"))),
              F({"payment"}, "Payment", TPtr(TExt("object"))),
              F({"settlement"}, "Settlement", TPtr(TExt("object"))),
              F({"documentation"}, "Documentation", TPtr(TExt("object"))) >>
      [] name = "ChargebackList" ->
           << F({"count"}, "Count", TInt),
              F({"_embedded"}, "Embedded", TStruct("Embedded")),
              F({"_links"}, "Links", TExt("object")) >>
      [] name = "Embedded" ->
           << F({"Chargebacks", "chargebacks"}, "Chargebacks",
                TSlice(TStruct("Chargeback"))) >>

ExtZero == [t |-> "zero", v |-> <<>>]

\* The zero value of a Go type.
RECURSIVE Zero(_)
Zero(ty) ==
    CASE ty.kind = "string" -> ""
      [] ty.kind = "int" -> 0
      [] ty.kind = "ptr" -> <<>>
      [] ty.kind = "slice" -> <<>>
      [] ty.kind = "ext" -> ExtZero
      [] ty.kind = "struct" ->
           LET fs == StructFields(ty.name)
               ix(n) == CHOOSE i \in 1..Len(fs) : fs[i].field = n
           IN  [n \in {fs[i].field : i \in 1..Len(fs)} |-> Zero(fs[ix(n)].ty)]

NoErr == "nil"
SyntaxError == "json.SyntaxError"
UnmarshalTypeError == "json.UnmarshalTypeError"

\* decodeState.saveError: the first error is the one kept.
SaveError(saved, e) == IF saved = NoErr THEN e ELSE saved

\* decodeState.value: store JSON value j into a target of type ty that
\* currently holds cur; gives the target's new value and the error saved.
\* A mismatch of kinds is recorded and decoding goes on with the next value.
RECURSIVE Decode(_, _, _), DecodeMembers(_, _, _, _), DecodeElems(_, _, _, _)
Decode(ty, j, cur) ==
    CASE ty.kind = "ptr" ->
           \* indirect(): null sets the pointer to nil; anything else
           \* allocates the element before the kinds are compared.
           IF j.t = "null" THEN [val |-> <<>>, err |-> NoErr]
           ELSE LET r == Decode(ty.elem, j, IF cur = <<>> THEN Zero(ty.elem) ELSE cur[1])
                IN  [val |-> <<r.val>>, err |-> r.err]
      [] ty.kind = "string" ->
           IF j.t = "string" THEN [val |-> j.v[1], err |-> NoErr]
           ELSE IF j.t = "null" THEN [val |-> cur, err |-> NoErr]
           ELSE [val |-> cur, err |-> UnmarshalTypeError]
      [] ty.kind = "int" ->
           IF j.t = "number" THEN [val |-> j.v[1], err |-> NoErr]
           ELSE IF j.t = "null" THEN [val |-> cur, err |-> NoErr]
           ELSE [val |-> cur, err |-> UnmarshalTypeError]
      [] ty.kind = "ext" ->
           IF j.t = ty.json THEN [val |-> j, err |-> NoErr]
           ELSE IF j.t = "null" THEN [val |-> cur, err |-> NoErr]
           ELSE [val |-> cur, err |-> UnmarshalTypeError]
      [] ty.kind = "struct" ->
           IF j.t = "object" THEN DecodeMembers(ty.name, j.v, cur, NoErr)
           ELSE IF j.t = "null" THEN [val |-> cur, err |-> NoErr]
           ELSE [val |-> cur, err |-> UnmarshalTypeError]
      [] ty.kind = "slice" ->
           IF j.t = "array" THEN DecodeElems(ty.elem, j.v, <<>>, NoErr)
           ELSE IF j.t = "null" THEN [val |-> <<>>, err |-> NoErr]
           ELSE [val |-> cur, err |-> UnmarshalTypeError]

\* decodeState.object on a struct: members in document order, unknown keys
\* skipped.
DecodeMembers(name, ms, cur, saved) ==
    IF ms = <<>> THEN [val |-> cur, err |-> saved]
    ELSE LET m == Head(ms)
             fs == StructFields(name)
             hit == {i \in 1..Len(fs) : m.k \in fs[i].keys}
         IN  IF hit = {} THEN DecodeMembers(name, Tail(ms), cur, saved)
             ELSE LET f == fs[CHOOSE i \in hit : TRUE]
                      r == Decode(f.ty, m.val, cur[f.field])
                  IN  DecodeMembers(name, Tail(ms),
                                    [cur EXCEPT ![f.field] = r.val],
                                    SaveError(saved, r.err))

\* decodeState.array on a slice: one fresh element per JSON element.
DecodeElems(elem, xs, acc, saved) ==
    IF xs = <<>> THEN [val |-> acc, err |-> saved]
    ELSE LET r == Decode(elem, Head(xs), Zero(elem))
         IN  DecodeElems(elem, Tail(xs), Append(acc, r.val), SaveError(saved, r.err))

\* json.Unmarshal(data, &target): checkValid rejects text that is not JSON
\* before anything is stored.
Unmarshal(data, ty, cur) ==
    IF data.t = "invalid" THEN [val |-> cur, err |-> SyntaxError]
    ELSE Decode(ty, data, cur)

\* The decode target of each operation: Get decodes into its result p, a
\* Chargeback (line 77); List and ListForPayment return what list decodes
\* into its result cl, a *ChargebackList (lines 92, 104, 117).
TargetType(o) ==
    IF o = "Get" THEN TStruct("Chargeback") ELSE TPtr(TStruct("ChargebackList"))

(***************************************************************************)
(* Response bodies the transport may deliver                               *)
(***************************************************************************)
\* {"resource":   (cut short: not JSON)
BodyTruncated == Invalid
\* null
BodyNull == JNull
\* {}
BodyEmptyObject == JObj(<<>>)
\* {"resource":"chargeback","id":"chb_n9z0tp","paymentId":"tr_7UhSN1zuXS"}
BodyChargeback ==
    JObj(<< M("resource", JStr("chargeback")), M("id", JStr("chb_n9z0tp")),
            M("paymentId", JStr("tr_7UhSN1zuXS")) >>)
\* {"count":1,"_embedded":{"chargebacks":[{"id":"chb_1"}]},"_links":{}}
BodyList ==
    JObj(<< M("count", JNum(1)),
            M("_embedded",
              JObj(<< M("chargebacks", JArr(<< JObj(<< M("id", JStr("chb_1")) >>) >>)) >>)),
            M("_links", JObj(<<>>)) >>)
\* {"resource":"chargeback","id":123}
BodyNumericID == JObj(<< M("resource", JStr("chargeback")), M("id", JNum(123)) >>)
\* {"count":1,"_embedded":"none"}
BodyStringEmbedded == JObj(<< M("count", JNum(1)), M("_embedded", JStr("none")) >>)
\* []
BodyArray == JArr(<<>>)

Bodies ==
    << BodyTruncated, BodyNull, BodyEmptyObject, BodyChargeback, BodyList,
       BodyNumericID, BodyStringEmbedded, BodyArray >>

\* The bodies used when several calls are in flight.
FewBodies == << BodyList, BodyStringEmbedded >>

(***************************************************************************)
(* The collaborators' failures                                             *)
(***************************************************************************)
\* cs.client.NewAPIRequest may reject its inputs.
BuilderErrors == {"RequestConstructionError"}
\* cs.client.Do may fail on the network, on a non-2xx status, or because the
\* caller's context was cancelled.
TransportErrors == {"TransportError", "context.Canceled"}

NoContent == [t |-> "none", v |-> <<>>]

\* One invocation of a collaborator or of the decoder, as it happened: the
\* URL it was given, the error it returned, the body it returned or was given.
Entry(step, uri, e, content) == [step |-> step, uri |-> uri, err |-> e, content |-> content]

(***************************************************************************)
(* The accessor                                                            *)
(***************************************************************************)
\* ChargebacksService is `service`: one reference to the host client.
TheService == [client |-> "client"]

Init ==
    /\ pc = [c \in Calls |-> "idle"]
    /\ op = [c \in Calls |-> "none"]
    /\ paymentID = [c \in Calls |-> <<>>]
    /\ chargebackID = [c \in Calls |-> <<>>]
    /\ options = [c \in Calls |-> NilOptions("none")]
    /\ u = [c \in Calls |-> <<>>]
    /\ req = [c \in Calls |-> <<>>]
    /\ res = [c \in Calls |-> <<>>]
    /\ ret = [c \in Calls |-> <<>>]
    /\ err = [c \in Calls |-> NoErr]
    /\ trace = [c \in Calls |-> <<>>]
    /\ cs = TheService

\* `if err != nil { return }` (lines 70-72, 74-76, 110-112, 114-116).
Returns_never(e) == FALSE
Returns_builderOnly(e) == e \in BuilderErrors
Returns(e) == e # NoErr

\* The uri call c hands to NewAPIRequest: its own local u (lines 69, 109).
RequestURI_shared(c) ==
    LET built == {d \in Calls : pc[d] # "idle"}
    IN  u[CHOOSE d \in built : \A e \in built : d <= e]
RequestURI(c) == u[c]

\* Entry of an operation: the named results hold their zero values and the
\* URL is built; the next thing to happen is the call of NewAPIRequest.
Enter(c, o, pid, cid, opts, uri) ==
    /\ op' = [op EXCEPT ![c] = o]
    /\ paymentID' = [paymentID EXCEPT ![c] = pid]
    /\ chargebackID' = [chargebackID EXCEPT ![c] = cid]
    /\ options' = [options EXCEPT ![c] = opts]
    /\ u' = [u EXCEPT ![c] = uri]
    /\ ret' = [ret EXCEPT ![c] = Zero(TargetType(o))]
    /\ err' = [err EXCEPT ![c] = NoErr]
    /\ pc' = [pc EXCEPT ![c] = "NewAPIRequest"]
    /\ UNCHANGED <<req, res, trace, cs>>

\* Get, lines 63-68, for arguments drawn from ids and opts.
Get(c, ids, opts) ==
    /\ pc[c] = "idle"
    /\ \E pid \in ids, cid \in ids, o \in opts :
         Enter(c, "Get", pid, cid, o, GetURL(pid, cid, o))

\* List, lines 86-92, up to the call of list.
List(c, opts) ==
    /\ pc[c] = "idle"
    /\ \E o \in opts : Enter(c, "List", <<>>, <<>>, o, ListURL(o))

\* ListForPayment, lines 98-104, up to the call of list.
ListForPayment(c, ids, opts) ==
    /\ pc[c] = "idle"
    /\ \E pid \in ids, o \in opts :
         Enter(c, "ListForPayment", pid, <<>>, o, ListForPaymentURL(pid, o))

\* req, err := cs.client.NewAPIRequest(ctx, http.MethodGet, u, nil), with
\* the check of err that follows (lines 69-72, 109-112).
NewAPIRequest(c) ==
    /\ pc[c] = "NewAPIRequest"
    /\ \E e \in {NoErr} \cup BuilderErrors :
         /\ req' = [req EXCEPT ![c] =
                      IF e = NoErr THEN << [method |-> "GET", url |-> RequestURI(c)] >>
                      ELSE <<>>]
         /\ err' = [err EXCEPT ![c] = e]
         /\ trace' = [trace EXCEPT ![c] =
                        Append(@, Entry("NewAPIRequest", RequestURI(c), e, NoContent))]
         /\ pc' = [pc EXCEPT ![c] = IF Returns(e) THEN "done" ELSE "Do"]
    /\ UNCHANGED <<op, paymentID, chargebackID, options, u, res, ret, cs>>

\* res, err := cs.client.Do(req), with the check of err that follows
\* (lines 73-76, 113-116).
Do(c, bodies) ==
    /\ pc[c] = "Do"
    /\ LET uri == IF req[c] = <<>> THEN <<>> ELSE req[c][1].url
       IN  \/ \E e \in TransportErrors :
                /\ res' = [res EXCEPT ![c] = <<>>]
                /\ err' = [err EXCEPT ![c] = e]
                /\ trace' = [trace EXCEPT ![c] = Append(@, Entry("Do", uri, e, NoContent))]
                /\ pc' = [pc EXCEPT ![c] = IF Returns(e) THEN "done" ELSE "Unmarshal"]
           \/ \E i \in 1..Len(bodies) :
                /\ res' = [res EXCEPT ![c] = << [content |-> bodies[i]] >>]
                /\ err' = [err EXCEPT ![c] = NoErr]
                /\ trace' = [trace EXCEPT ![c] = Append(@, Entry("Do", uri, NoErr, bodies[i]))]
                /\ pc' = [pc EXCEPT ![c] = IF Returns(NoErr) THEN "done" ELSE "Unmarshal"]
    /\ UNCHANGED <<op, paymentID, chargebackID, options, u, req, ret, cs>>

\* What the decode step of operation o stores and returns.
DecodeFor_unchecked(o, content, cur) ==
    IF o = "ListForPayment"
    THEN [val |-> Unmarshal(content, TargetType(o), cur).val, err |-> NoErr]
    ELSE Unmarshal(content, TargetType(o), cur)
DecodeFor(o, content, cur) == Unmarshal(content, TargetType(o), cur)

\* err = json.Unmarshal(res.content, &p) / (res.content, &cl) and the
\* return of the named results (lines 77-80, 117-120; for the two list
\* operations also the `return cs.list(ctx, u)` of lines 92 and 104).
UnmarshalAndReturn(c) ==
    /\ pc[c] = "Unmarshal"
    /\ res[c] # <<>>
    /\ LET r == DecodeFor(op[c], res[c][1].content, ret[c])
       IN  /\ ret' = [ret EXCEPT ![c] = r.val]
           /\ err' = [err EXCEPT ![c] = r.err]
           /\ trace' = [trace EXCEPT ![c] =
                          Append(@, Entry("Unmarshal", <<>>,
                                          Unmarshal(res[c][1].content, TargetType(op[c]), ret[c]).err,
                                          res[c][1].content))]
    /\ pc' = [pc EXCEPT ![c] = "done"]
    /\ UNCHANGED <<op, paymentID, chargebackID, options, u, req, res, cs>>

(***************************************************************************)
(* Specifications                                                          *)
(***************************************************************************)
\* Options of a few shapes: nil, all fields empty, one field set.
FewOptions(type) ==
    { NilOptions(type),
      [type |-> type, ptr |-> << [f \in {OptionFields[type][i] : i \in 1..Len(OptionFields[type])} |-> <<>>] >>],
      [type |-> type, ptr |-> << [f \in {OptionFields[type][i] : i \in 1..Len(OptionFields[type])} |->
                                     IF f = "Embed" THEN <<"a">> ELSE <<>>] >>] }

\* One call at a time, every body.
Next ==
    \/ Get(1, IDs, FewOptions("ChargebackOptions"))
    \/ List(1, FewOptions("ListChargebackOptions"))
    \/ ListForPayment(1, IDs, FewOptions("ListChargebackOptions"))
    \/ NewAPIRequest(1)
    \/ Do(1, Bodies)
    \/ UnmarshalAndReturn(1)

Spec == Init /\ [][Next]_vars

\* URL construction alone, over every options value.
NextURL ==
    \/ Get(1, IDs, ChargebackOptions)
    \/ List(1, ListChargebackOptions)
    \/ ListForPayment(1, IDs, ListChargebackOptions)

SpecURL == Init /\ [][NextURL]_vars

\* Calls in flight together on the same accessor.
ConcIDs == { <<"t", "r", "_", "7">> }
ConcOptions(type) == {o \in FewOptions(type) : o.ptr = <<>> \/ o.ptr[1].Embed # <<>>}

NextConc ==
    \E c \in Calls :
        \/ Get(c, ConcIDs, ConcOptions("ChargebackOptions"))
        \/ List(c, ConcOptions("ListChargebackOptions"))
        \/ ListForPayment(c, ConcIDs, ConcOptions("ListChargebackOptions"))
        \/ NewAPIRequest(c)
        \/ Do(c, FewBodies)
        \/ UnmarshalAndReturn(c)

SpecConc == Init /\ [][NextConc]_vars

(***************************************************************************)
(* Reading a URL back: net/url's ParseQuery, used to state what a query    *)
(* string carries.                                                         *)
(***************************************************************************)
Chars(s) == {s[i] : i \in 1..Len(s)}

\* Position of the first c in s, or 0.
RECURSIVE IndexFrom(_, _, _)
IndexFrom(s, c, i) ==
    IF i > Len(s) THEN 0 ELSE IF s[i] = c THEN i ELSE IndexFrom(s, c, i + 1)
IndexOf(s, c) == IndexFrom(s, c, 1)

Before(s, c) == LET i == IndexOf(s, c) IN IF i = 0 THEN s ELSE SubSeq(s, 1, i - 1)
After(s, c) == LET i == IndexOf(s, c) IN IF i = 0 THEN <<>> ELSE SubSeq(s, i + 1, Len(s))

RECURSIVE Split(_, _)
Split(s, c) ==
    LET i == IndexOf(s, c)
    IN  IF i = 0 THEN <<s>> ELSE <<SubSeq(s, 1, i - 1)>> \o Split(SubSeq(s, i + 1, Len(s)), c)

CharOfCode(code) ==
    IF \E c \in DOMAIN PercentCode : PercentCode[c] = code
    THEN CHOOSE c \in DOMAIN PercentCode : PercentCode[c] = code
    ELSE "#"

RECURSIVE QueryUnescape(_)
QueryUnescape(s) ==
    IF s = <<>> THEN <<>>
    ELSE IF Head(s) = "+" THEN <<" ">> \o QueryUnescape(Tail(s))
    ELSE IF Head(s) = "%" /\ Len(s) >= 3
         THEN <<CharOfCode(SubSeq(s, 1, 3))>> \o QueryUnescape(SubSeq(s, 4, Len(s)))
    ELSE <<Head(s)>> \o QueryUnescape(Tail(s))

\* The parameters of a query string, in order, as [key, value] entries.
RECURSIVE ParsePairs(_)
ParsePairs(segs) ==
    IF segs = <<>> THEN <<>>
    ELSE (IF Head(segs) = <<>> THEN <<>>
          ELSE << [key |-> QueryUnescape(Before(Head(segs), "=")),
                   value |-> QueryUnescape(After(Head(segs), "="))] >>)
         \o ParsePairs(Tail(segs))

ParseQuery(q) == ParsePairs(Split(q, "&"))

HasQuery(uri) == "?" \in Chars(uri)
PathOf(uri) == Before(uri, "?")
QueryOf(uri) == After(uri, "?")
Params(uri) == ParseQuery(QueryOf(uri))
ParamKeys(uri) == LET ps == Params(uri) IN {ps[i].key : i \in 1..Len(ps)}

Started(c) == pc[c] # "idle"
Done(c) == pc[c] = "done"
IsList(c) == op[c] \in {"List", "ListForPayment"}
OptionsAbsent(c) == options[c].ptr = <<>>
NonEmptyFields(c) ==
    IF OptionsAbsent(c) THEN {} ELSE {f \in DOMAIN options[c].ptr[1] : options[c].ptr[1][f] # <<>>}

\* The paths as the specification writes them in its section 4, and as the
\* HTTP table of its section 6 has them (under v2).
PaymentsLit == <<"p", "a", "y", "m", "e", "n", "t", "s">>
ChargebacksLit == <<"c", "h", "a", "r", "g", "e", "b", "a", "c", "k", "s">>
Section4Path(c) ==
    CASE op[c] = "Get" ->
           PaymentsLit \o <<"/">> \o paymentID[c] \o <<"/">> \o ChargebacksLit
             \o <<"/">> \o chargebackID[c]
      [] op[c] = "List" -> ChargebacksLit
      [] op[c] = "ListForPayment" ->
           PaymentsLit \o <<"/">> \o paymentID[c] \o <<"/">> \o ChargebacksLit
VersionedPath(c) == <<"v", "2", "/">> \o Section4Path(c)

(***************************************************************************)
(* Properties                                                              *)
(***************************************************************************)
ZeroResult(c) == Zero(TargetType(op[c]))

\* C1: whenever Get, List or ListForPayment returns a non-nil error, the
\* result returned with it is the zero value (an empty Chargeback, a nil
\* *ChargebackList), whichever of the three steps failed.
C1_ZeroResultWithError ==
    \A c \in Calls : (Done(c) /\ err[c] # NoErr) => ret[c] = ZeroResult(c)

\* The error of the first step that failed, nil when none did.
FirstFailure(tr) ==
    LET failed == {i \in 1..Len(tr) : tr[i].err # NoErr}
    IN  IF failed = {} THEN NoErr
        ELSE tr[CHOOSE i \in failed : \A j \in failed : i <= j].err

\* C2: the error a call returns is exactly the error its failing step
\* (request builder, transport, JSON decoder) produced, and nil only when
\* no step failed.
C2_ErrorReturnedUnchanged ==
    \A c \in Calls : Done(c) => err[c] = FirstFailure(trace[c])

C2_Witness ==
    \E c \in Calls : Done(c) /\ err[c] = "context.Canceled" /\ Len(trace[c]) = 2

StepOrder == <<"NewAPIRequest", "Do", "Unmarshal">>

\* C3: the steps of a call are a prefix of request builder, transport,
\* decode, each at most once; a step is invoked, or about to be invoked,
\* only when every step before it succeeded.
C3_FixedOrderNoRetry ==
    \A c \in Calls :
        LET tr == trace[c]
        IN  /\ Len(tr) <= Len(StepOrder)
            /\ \A i \in 1..Len(tr) : tr[i].step = StepOrder[i]
            /\ \A i \in 1..(Len(tr) - 1) : tr[i].err = NoErr
            /\ pc[c] \in {"Do", "Unmarshal"} => \A i \in 1..Len(tr) : tr[i].err = NoErr

C3_Witness ==
    \E c \in Calls :
        /\ Done(c)
        /\ Len(trace[c]) = 2
        /\ trace[c][2].err = "TransportError"

\* C4 as stated: with options absent the URL is exactly
\* payments/{paymentID}/chargebacks/{chargebackID}, chargebacks or
\* payments/{paymentID}/chargebacks.
C4_Section4PathWhenAbsent ==
    \A c \in Calls : (Started(c) /\ OptionsAbsent(c)) => u[c] = Section4Path(c)

\* C4 as amended: with options absent the URL is exactly the path under v2/
\* with the identifiers substituted verbatim, and carries no "?".
C4_VersionedPathWhenAbsent ==
    \A c \in Calls :
        (Started(c) /\ OptionsAbsent(c)) => (u[c] = VersionedPath(c) /\ ~HasQuery(u[c]))

C4_Witness ==
    \E c \in Calls : Started(c) /\ OptionsAbsent(c) /\ op[c] = "Get" /\ paymentID[c] # chargebackID[c]

\* C5: for options with at least one non-empty field the query string after
\* "?" has exactly one parameter per non-empty field, named by the field's
\* url tag and carrying the field's value, and no other parameter.
C5_QueryCarriesNonEmptyFields ==
    \A c \in Calls :
        (Started(c) /\ NonEmptyFields(c) # {}) =>
            LET ps == Params(u[c])
            IN  /\ HasQuery(u[c])
                /\ Len(ps) = Cardinality(NonEmptyFields(c))
                /\ {ps[i] : i \in 1..Len(ps)}
                     = { [key |-> UrlTag[f], value |-> options[c].ptr[1][f]] :
                           f \in NonEmptyFields(c) }

C5_Witness ==
    \E c \in Calls :
        /\ Started(c)
        /\ op[c] = "List"
        /\ NonEmptyFields(c) = {"Include", "ProfileID"}
        /\ options[c].ptr[1].Include = <<"&">>

\* C6: for options that are present with every field empty the URL is the
\* URL built for absent options followed by "?" and nothing else.
C6_BareQuestionMarkWhenAllEmpty ==
    \A c \in Calls :
        (Started(c) /\ ~OptionsAbsent(c) /\ NonEmptyFields(c) = {}) =>
            u[c] = VersionedPath(c) \o <<"?">>

C6_Witness ==
    \E c \in Calls :
        Started(c) /\ ~OptionsAbsent(c) /\ NonEmptyFields(c) = {} /\ op[c] = "ListForPayment"

\* C7 as stated: the URL of ListForPayment carries no parameter other than
\* include and embed.
C7_OnlyIncludeAndEmbed ==
    \A c \in Calls :
        (Started(c) /\ op[c] = "ListForPayment") =>
            ParamKeys(u[c]) \subseteq {UrlTag.Include, UrlTag.Embed}

\* C7 as amended: the URL of ListForPayment is the path
\* v2/payments/{paymentID}/chargebacks, its parameters are among include,
\* embed and profileId, and profileId is there exactly when the options'
\* ProfileID is non-empty.
C7_IncludeEmbedAndProfileId ==
    \A c \in Calls :
        (Started(c) /\ op[c] = "ListForPayment") =>
            LET keys == ParamKeys(u[c])
                profileId == <<"p", "r", "o", "f", "i", "l", "e", "I", "d">>
            IN  /\ PathOf(u[c]) = VersionedPath(c)
                /\ keys \subseteq {UrlTag.Include, UrlTag.Embed, profileId}
                /\ profileId \in keys <=> "ProfileID" \in NonEmptyFields(c)

C7_Witness ==
    \E c \in Calls :
        Started(c) /\ op[c] = "ListForPayment" /\ "ProfileID" \in NonEmptyFields(c)

\* What the collaborators returned to a call: per step the error and the body.
Outcome(c) ==
    [ i \in {j \in 1..Len(trace[c]) : trace[c][j].step # "Unmarshal"} |->
        [err |-> trace[c][i].err, content |-> trace[c][i].content] ]

\* C8: a List call and a ListForPayment call whose builder and transport
\* returned the same (the same errors, the same body) return the same
\* *ChargebackList and the same error.
C8_ListVariantsAgree ==
    \A c1, c2 \in Calls :
        ( /\ Done(c1) /\ op[c1] = "List"
          /\ Done(c2) /\ op[c2] = "ListForPayment"
          /\ Outcome(c1) = Outcome(c2) )
        => (ret[c1] = ret[c2] /\ err[c1] = err[c2])

C8_Witness ==
    \E c1, c2 \in Calls :
        /\ Done(c1) /\ op[c1] = "List"
        /\ Done(c2) /\ op[c2] = "ListForPayment"
        /\ Outcome(c1) = Outcome(c2)
        /\ Len(trace[c1]) = 3
        /\ err[c1] = UnmarshalTypeError

\* The URL a call builds from its own arguments.
OwnURL(c) ==
    CASE op[c] = "Get" -> GetURL(paymentID[c], chargebackID[c], options[c])
      [] op[c] = "List" -> ListURL(options[c])
      [] op[c] = "ListForPayment" -> ListForPaymentURL(paymentID[c], options[c])

\* What a call returns when it runs alone and its collaborators return
\* what trace tr records.
Alone(c, tr) ==
    IF tr[1].err # NoErr THEN [val |-> ZeroResult(c), err |-> tr[1].err]
    ELSE IF tr[2].err # NoErr THEN [val |-> ZeroResult(c), err |-> tr[2].err]
    ELSE Unmarshal(tr[2].content, TargetType(op[c]), ZeroResult(c))

\* C9: with calls interleaved on the same accessor, the accessor's state is
\* never written, the URL every call hands to the builder and sends is the
\* URL of its own arguments, and what it returns is what it returns alone
\* on its own collaborators' outcomes.
C9_CallsDoNotInterfere ==
    /\ cs = TheService
    /\ \A c \in Calls :
        /\ \A i \in 1..Len(trace[c]) :
              trace[c][i].step # "Unmarshal" => trace[c][i].uri = OwnURL(c)
        /\ Done(c) =>
              /\ ret[c] = Alone(c, trace[c]).val
              /\ err[c] = Alone(c, trace[c]).err

C9_Witness ==
    \E c1, c2 \in Calls :
        /\ c1 # c2
        /\ Done(c1) /\ Done(c2)
        /\ u[c1] # u[c2]
        /\ Len(trace[c1]) = 3 /\ Len(trace[c2]) = 3
        /\ err[c1] # err[c2]

\* C10: List and ListForPayment return a nil error only with a non-nil
\* list, and a nil list only with a non-nil error.
C10_ListOrError ==
    \A c \in Calls :
        (Done(c) /\ IsList(c)) =>
            /\ err[c] = NoErr => ret[c] # <<>>
            /\ ret[c] = <<>> => err[c] # NoErr

====
